---- MODULE Spec2Model ----
(***************************************************************************)
(* Model of native-host/profile_switcher_host.py: the native messaging     *)
(* host of the Chrome profile switcher.  Several host processes (one per   *)
(* browser profile) share the signal directory; each has a dispatch loop   *)
(* (main) and, once registered, a daemon signal_watcher thread.            *)
(***************************************************************************)
EXTENDS Integers, Sequences, FiniteSets, TLC

\* ------------------------------------------------------------------ bounds
\* Requests read by all host processes together.
MaxReqs == 2
\* Operations issued by the sequential mailbox client.
MaxOps == 4
\* The longest message body read_message is given.
MaxBody == 2
\* Profile directories in Local State.
MaxDirs == 3
\* Payloads the watchers take from files other programs wrote.
MaxTakes == 2

\* ------------------------------------------------------------- value sets
Hosts == {"h1", "h2"}
Profiles == {"Default", "Profile 1"}
\* dict.get() of a key the message does not carry (Python None).
Missing == "<None>"
EmptyDir == ""
Urls == {"http://a"}
\* msg.get("id") of a request without id; ids of requests are 1, 2, ...
NoId == 0
\* The bytes of a frame's length prefix.
PrefixLen == 4

\* ------------------------------------------------ Python values and JSON
\* A value handed to write_signal or returned by read_signal: None, or a
\* dict that has at most the key "url" (url = Missing: the key is not there;
\* url = "null": the key holds None).
PyNone == [kind |-> "None", url |-> Missing]
EmptyObj == [kind |-> "dict", url |-> Missing]
UrlObj(u) == [kind |-> "dict", url |-> u]
JSONDecodeError == [kind |-> "JSONDecodeError", url |-> Missing]
\* The list json.loads makes of the text "[]".
EmptyList == [kind |-> "list", url |-> Missing]
Null == "null"
Payloads == {PyNone, EmptyObj, UrlObj(Null)} \cup {UrlObj(u) : u \in Urls}

\* bool(data): None and the empty dict are falsy.
Truthy(data) == data.kind = "dict" /\ data.url # Missing

\* `data or {}` of write_signal.
OrEmpty(data) == IF Truthy(data) THEN data ELSE EmptyObj

\* json.dumps of a dict, as the sequence of the text's tokens.
Dumps(data) ==
    IF data.url = Missing THEN <<"{", "}">>
    ELSE IF data.url = Null THEN <<"{", "\"url\"", ":", "null", "}">>
    ELSE <<"{", "\"url\"", ":", "\"", data.url, "\"", "}">>

\* json.loads of a text: the dict, the list, or JSONDecodeError.
Loads(text) ==
    IF text = <<"{", "}">> THEN EmptyObj
    ELSE IF text = <<"[", "]">> THEN EmptyList
    ELSE IF text = <<"{", "\"url\"", ":", "null", "}">> THEN UrlObj(Null)
    ELSE IF /\ Len(text) = 7
            /\ SubSeq(text, 1, 4) = <<"{", "\"url\"", ":", "\"">>
            /\ SubSeq(text, 6, 7) = <<"\"", "}">>
            /\ text[5] \in Urls
         THEN UrlObj(text[5])
    ELSE JSONDecodeError

\* ------------------------------------------------------ the signal files
\* SIGNAL_DIR / p for each profile p: the file is there or not, and its text.
Absent == [exists |-> FALSE, text |-> <<>>]
NoFiles == [p \in Profiles |-> Absent]

\* A mode that opens the file without truncating it.
OpenKeep(f, p) == [f EXCEPT ![p] = [exists |-> TRUE, text |-> @.text]]

\* open(path, "w") of write_text: creates the file or truncates it.
OpenW(f, p) == [f EXCEPT ![p] = [exists |-> TRUE, text |-> <<>>]]

\* write() at offset 0 of the open file: what lies beyond the new text stays.
WriteAt0(f, p, text) ==
    [f EXCEPT ![p].text = text \o SubSeq(@, Len(text) + 1, Len(@))]

\* signal_file.unlink() where the file is there.
Unlink(f, p) == [f EXCEPT ![p] = Absent]

\* write_signal, run without interruption: the files afterwards.
write_signal(f, p, data) == WriteAt0(OpenW(f, p), p, Dumps(OrEmpty(data)))

\* A read_signal that reads the file and leaves it.
read_signal_peek(f, p) ==
    IF ~f[p].exists THEN [ret |-> PyNone, fs |-> f]
    ELSE IF Loads(f[p].text) # JSONDecodeError
         THEN [ret |-> Loads(f[p].text), fs |-> f]
         ELSE [ret |-> PyNone, fs |-> Unlink(f, p)]

\* A read_signal that leaves the file where its text does not parse.
read_signal_keep(f, p) ==
    IF ~f[p].exists THEN [ret |-> PyNone, fs |-> f]
    ELSE IF Loads(f[p].text) # JSONDecodeError
         THEN [ret |-> Loads(f[p].text), fs |-> Unlink(f, p)]
         ELSE [ret |-> PyNone, fs |-> f]

\* read_signal, run without interruption: what it returns, the files afterwards.
read_signal(f, p) ==
    IF ~f[p].exists THEN [ret |-> PyNone, fs |-> f]
    ELSE IF Loads(f[p].text) # JSONDecodeError
         THEN [ret |-> Loads(f[p].text), fs |-> Unlink(f, p)]
         ELSE [ret |-> PyNone, fs |-> Unlink(f, p)]

\* ------------------------------------------------------------------ state
VARIABLES
    fs,               \* the signal files, shared by all processes
    pc,               \* main thread of each host: where it is
    msg,              \* main: the request being handled
    result,           \* main: the handler's result dict
    reqCount,         \* main: requests read so far
    reqLog,           \* history: the requests read, in order
    expired,          \* main, in wait_for_signal_consumed: deadline has passed
    waited,           \* main: what wait_for_signal_consumed returned
    popen,            \* main: how the Popen of CHROME_BIN ended
    linked,           \* main, in write_text: the open file is still the slot's
    watcher_started,  \* main(): the flag of line 239
    wpc,              \* signal_watcher thread of each host: where it is
    watched,          \* signal_watcher: its profile_dir argument
    wdata,            \* signal_watcher: what json.loads gave read_signal
    stdout_lock,      \* who holds stdout_lock
    outbuf,           \* sys.stdout.buffer: written, not yet flushed
    stdout,           \* the bytes flushed to the extension, as frame parts
    exitCode,         \* -1 while the process runs
    spawned,          \* the Popen calls of CHROME_BIN made, per host
    taken,            \* history: what a watcher did to the slot during the wait
    started,          \* history: signal_watcher threads started, per host
    firstReg,         \* history: first profileDir a watcher was started for
    wtakes,           \* history: the payloads read_signal returned to the watcher
    seqLog,           \* the sequential mailbox client's operations and returns
    info_cache,       \* get_profiles: the directory names of Local State, in file order
    sorted_dirs       \* get_profiles: the sorted() of line 105, once made

sortVars == <<info_cache, sorted_dirs>>

vars == <<fs, pc, msg, result, reqCount, reqLog, expired, waited, popen, linked,
          watcher_started, wpc, watched, wdata, stdout_lock, outbuf, stdout,
          exitCode, spawned, taken, started, firstReg, wtakes, seqLog, sortVars>>

mainVars == <<pc, msg, result, reqCount, reqLog, expired, waited, popen, linked,
              watcher_started, spawned, exitCode, started, firstReg>>
watcherVars == <<wpc, watched, wdata, wtakes>>
outVars == <<stdout_lock, outbuf, stdout>>
hostVars == <<mainVars, watcherVars, outVars, taken>>

NoMsg == [action |-> Missing, id |-> NoId, profileDir |-> Missing, url |-> Missing]
NoResult == [success |-> FALSE, method |-> Missing, error |-> Missing,
             profiles |-> FALSE]
\* A handler that reports every success as a delivered signal.
SuccessSignal(method) == [NoResult EXCEPT !.success = TRUE, !.method = "signal"]

Success(method) == [NoResult EXCEPT !.success = TRUE, !.method = method]
\* A handler that reports a failure as a launch.
FailureAsLaunch(error) == Success("launch")

Failure(error) == [NoResult EXCEPT !.error = error]

\* sorted_dirs before line 105 has run.
Unsorted == [done |-> FALSE, dirs |-> <<>>]

RECURSIVE Sum(_, _)
Sum(f, S) == IF S = {} THEN 0
             ELSE LET x == CHOOSE y \in S : TRUE IN f[x] + Sum(f, S \ {x})

\* The processes and the signal directory at the start.
Start ==
    /\ fs = NoFiles
    /\ pc = [h \in Hosts |-> "read"]
    /\ msg = [h \in Hosts |-> NoMsg]
    /\ result = [h \in Hosts |-> NoResult]
    /\ reqCount = [h \in Hosts |-> 0]
    /\ reqLog = [h \in Hosts |-> <<>>]
    /\ expired = [h \in Hosts |-> FALSE]
    /\ waited = [h \in Hosts |-> "-"]
    /\ popen = [h \in Hosts |-> "-"]
    /\ linked = [h \in Hosts |-> FALSE]
    /\ watcher_started = [h \in Hosts |-> FALSE]
    /\ wpc = [h \in Hosts |-> "off"]
    /\ watched = [h \in Hosts |-> Missing]
    /\ wdata = [h \in Hosts |-> PyNone]
    /\ stdout_lock = [h \in Hosts |-> "free"]
    /\ outbuf = [h \in Hosts |-> <<>>]
    /\ stdout = [h \in Hosts |-> <<>>]
    /\ exitCode = [h \in Hosts |-> -1]
    /\ spawned = [h \in Hosts |-> <<>>]
    /\ taken = [h \in Hosts |-> "no"]
    /\ started = [h \in Hosts |-> 0]
    /\ firstReg = [h \in Hosts |-> Missing]
    /\ wtakes = [h \in Hosts |-> <<>>]
    /\ seqLog = <<>>

Init == Start /\ info_cache = <<>> /\ sorted_dirs = Unsorted

\* ------------------------------------------------------------ send_message
\* The frame send_message writes for a handler's result.  req and act are
\* history tags (which request, which action), not bytes of the frame.
Response(h) ==
    [kind |-> "response", id |-> msg[h].id, success |-> result[h].success,
     method |-> result[h].method, error |-> result[h].error,
     profiles |-> result[h].profiles, action |-> Missing, url |-> Missing,
     req |-> reqCount[h], act |-> msg[h].action]

\* A watcher that sends the plain activate whatever the signal holds.
EventActivate(data) ==
    [kind |-> "event", id |-> NoId, success |-> FALSE, method |-> Missing,
     error |-> Missing, profiles |-> FALSE, action |-> "activate", url |-> Missing,
     req |-> 0, act |-> Missing]

\* The frame signal_watcher sends for a signal: `if url:` decides which.
Event(data) ==
    [kind |-> "event", id |-> NoId, success |-> FALSE, method |-> Missing,
     error |-> Missing, profiles |-> FALSE,
     action |-> IF data.url \notin {Missing, Null} THEN "open-url" ELSE "activate",
     url |-> IF data.url \notin {Missing, Null} THEN data.url ELSE Missing,
     req |-> 0, act |-> Missing]

\* A send_message that does not wait for the lock.
NoLock(h) == TRUE

\* `with stdout_lock:` can be entered.
LockFree(h) == stdout_lock[h] = "free"

\* send_message up to the write of the length prefix.
SendPrefix(h, who, m) ==
    /\ LockFree(h)
    /\ stdout_lock' = [stdout_lock EXCEPT ![h] = who]
    /\ outbuf' = [outbuf EXCEPT ![h] = Append(@, [part |-> "len", m |-> m])]
    /\ UNCHANGED stdout

\* send_message from the write of the body: flush, release the lock.
SendRest(h, m) ==
    /\ stdout' = [stdout EXCEPT ![h] = @ \o outbuf[h] \o <<[part |-> "body", m |-> m]>>]
    /\ outbuf' = [outbuf EXCEPT ![h] = <<>>]
    /\ stdout_lock' = [stdout_lock EXCEPT ![h] = "free"]

\* ------------------------------------------------------------ main thread
CanRead(h) == pc[h] = "read" /\ Sum(reqCount, Hosts) < MaxReqs

\* read_message returned m: lines 242-244.
Receive(h, m) ==
    /\ msg' = [msg EXCEPT ![h] = m]
    /\ reqCount' = [reqCount EXCEPT ![h] = @ + 1]
    /\ reqLog' = [reqLog EXCEPT ![h] = Append(@, m)]

\* An exception nothing catches reaches __main__: traceback, sys.exit(1).
\* The daemon watcher thread ends with the process.
Crash(h) ==
    /\ pc' = [pc EXCEPT ![h] = "exited"]
    /\ exitCode' = [exitCode EXCEPT ![h] = 1]

IdsOf(h) == {NoId, reqCount[h] + 1}

\* A register that starts a thread whatever the flag says.
StartsAlways(h, dir) == dir \notin {Missing, EmptyDir}

\* `if profile_dir and not watcher_started`.
StartsWatcher(h, dir) == dir \notin {Missing, EmptyDir} /\ ~watcher_started[h]

\* action == "register".
Register(h, dir, id) ==
    /\ CanRead(h)
    /\ Receive(h, [NoMsg EXCEPT !.action = "register", !.id = id, !.profileDir = dir])
    /\ IF StartsWatcher(h, dir)
       THEN /\ watcher_started' = [watcher_started EXCEPT ![h] = TRUE]
            /\ started' = [started EXCEPT ![h] = @ + 1]
            /\ watched' = [watched EXCEPT ![h] = dir]
            /\ wpc' = [wpc EXCEPT ![h] = "w_exists"]
            /\ wdata' = [wdata EXCEPT ![h] = PyNone]
       ELSE UNCHANGED <<watcher_started, started, watched, wpc, wdata>>
    /\ firstReg' = [firstReg EXCEPT ![h] =
           IF @ = Missing /\ dir \notin {Missing, EmptyDir} THEN dir ELSE @]
    /\ result' = [result EXCEPT ![h] = Success(Missing)]
    /\ pc' = [pc EXCEPT ![h] = "send"]
    /\ UNCHANGED <<fs, expired, waited, popen, linked, outVars, exitCode, spawned, taken,
                   wtakes, seqLog, sortVars>>

\* action == "get-profiles": the Local State file reads and holds profiles, or not.
GetProfiles(h, id, ok) ==
    /\ CanRead(h)
    /\ Receive(h, [NoMsg EXCEPT !.action = "get-profiles", !.id = id])
    /\ result' = [result EXCEPT ![h] = IF ok THEN [NoResult EXCEPT !.profiles = TRUE]
                                       ELSE Failure("Local State")]
    /\ pc' = [pc EXCEPT ![h] = "send"]
    /\ UNCHANGED <<fs, expired, waited, popen, linked, watcher_started, watcherVars, outVars,
                   exitCode, spawned, taken, started, firstReg, seqLog, sortVars>>

\* Any other action.
UnknownAction(h, id) ==
    /\ CanRead(h)
    /\ Receive(h, [NoMsg EXCEPT !.action = "bogus", !.id = id])
    /\ result' = [result EXCEPT ![h] = Failure("Unknown action")]
    /\ pc' = [pc EXCEPT ![h] = "send"]
    /\ UNCHANGED <<fs, expired, waited, popen, linked, watcher_started, watcherVars, outVars,
                   exitCode, spawned, taken, started, firstReg, seqLog, sortVars>>

\* switch_profile / open_url_in_profile up to write_text's open(): with no
\* profileDir, SIGNAL_DIR / None raises TypeError; with the empty one the path
\* is the directory and open() raises IsADirectoryError.
BeginSignal(h, m) ==
    /\ CanRead(h)
    /\ Receive(h, m)
    /\ IF m.profileDir \in Profiles
       THEN /\ fs' = OpenW(fs, m.profileDir)
            /\ linked' = [linked EXCEPT ![h] = TRUE]
            /\ pc' = [pc EXCEPT ![h] = "ws_write"]
            /\ UNCHANGED exitCode
       ELSE /\ Crash(h)
            /\ UNCHANGED <<fs, linked>>
    /\ taken' = [taken EXCEPT ![h] = "no"]
    /\ expired' = [expired EXCEPT ![h] = FALSE]
    /\ waited' = [waited EXCEPT ![h] = "-"]
    /\ popen' = [popen EXCEPT ![h] = "-"]
    /\ UNCHANGED <<result, watcher_started, watcherVars, outVars, spawned,
                   started, firstReg, seqLog, sortVars>>

\* action == "switch-profile".
SwitchProfile(h, dir, id) ==
    BeginSignal(h, [NoMsg EXCEPT !.action = "switch-profile", !.id = id,
                                 !.profileDir = dir])

\* action == "open-url-in-profile".
OpenUrlInProfile(h, dir, url, id) ==
    BeginSignal(h, [NoMsg EXCEPT !.action = "open-url-in-profile", !.id = id,
                                 !.profileDir = dir, !.url = url])

\* The data argument the handler gives write_signal.
SignalData(m) == IF m.action = "switch-profile" THEN PyNone
                 ELSE UrlObj(IF m.url = Missing THEN Null ELSE m.url)

\* write_text's write and close: the text lands in the slot only while the
\* opened file is still the one the path names.
WriteStore(h) ==
    /\ pc[h] = "ws_write"
    /\ fs' = IF linked[h]
             THEN WriteAt0(fs, msg[h].profileDir, Dumps(OrEmpty(SignalData(msg[h]))))
             ELSE fs
    /\ linked' = [linked EXCEPT ![h] = FALSE]
    /\ pc' = [pc EXCEPT ![h] = "wait_exists"]
    /\ UNCHANGED <<msg, result, reqCount, reqLog, expired, waited, popen, watcher_started,
                   watcherVars, outVars, exitCode, spawned, taken, started,
                   firstReg, seqLog, sortVars>>

\* ------------------------------------------- wait_for_signal_consumed etc.
Waiting(h) == pc[h] \in {"wait_exists", "wait_sleep"}
Signalling(h) == pc[h] = "ws_write" \/ Waiting(h)

\* A watcher's unlink removed the slot of p: the hosts that are writing to p
\* or waiting on p before their deadline have it in their history (how:
\* "consumed" by line 148 after the host's write, "removed" otherwise).
Noted(p, how) ==
    [h \in Hosts |->
        IF Signalling(h) /\ msg[h].profileDir = p /\ ~expired[h] /\ taken[h] # "consumed"
        THEN (IF Waiting(h) THEN how ELSE "removed") ELSE taken[h]]

\* An unlink of p's file: a writer that holds it open now writes to no slot.
Orphaned(p) == [h \in Hosts |-> linked[h] /\ msg[h].profileDir # p]

\* Line 163, the deadline not yet passed: the slot is gone (return True, and
\* the handler's result) or still there (sleep).
WaitPoll(h) ==
    /\ pc[h] = "wait_exists"
    /\ IF ~fs[msg[h].profileDir].exists
       THEN /\ waited' = [waited EXCEPT ![h] = "True"]
            /\ result' = [result EXCEPT ![h] = Success("signal")]
            /\ pc' = [pc EXCEPT ![h] = "send"]
       ELSE /\ pc' = [pc EXCEPT ![h] = "wait_sleep"]
            /\ UNCHANGED <<result, waited>>
    /\ UNCHANGED <<fs, msg, reqCount, reqLog, expired, popen, linked, watcher_started,
                   watcherVars, outVars, exitCode, spawned, taken, started,
                   firstReg, seqLog, sortVars>>

\* time.monotonic() reaches the deadline while the waiter sleeps.
DeadlinePasses(h) ==
    /\ pc[h] = "wait_sleep"
    /\ ~expired[h]
    /\ expired' = [expired EXCEPT ![h] = TRUE]
    /\ UNCHANGED <<fs, pc, msg, result, reqCount, reqLog, waited, popen, linked, watcher_started,
                   watcherVars, outVars, exitCode, spawned, taken, started,
                   firstReg, seqLog, sortVars>>

\* The sleep ends before the deadline: line 162 holds, poll again.
WaitWake(h) ==
    /\ pc[h] = "wait_sleep"
    /\ ~expired[h]
    /\ pc' = [pc EXCEPT ![h] = "wait_exists"]
    /\ UNCHANGED <<fs, msg, result, reqCount, reqLog, expired, waited, popen, linked,
                   watcher_started, watcherVars, outVars, exitCode, spawned,
                   taken, started, firstReg, seqLog, sortVars>>

\* A timeout that leaves the slot as it is.
CleanupKeep(f, p) == f

\* A timeout that empties the signal directory.
CleanupAll(f, p) == NoFiles

\* Lines 167-170: unlink, OSError passed over.
Cleanup(f, p) == IF f[p].exists THEN Unlink(f, p) ELSE f

\* The sleep ends after the deadline: clean up, return False.
WaitTimeout(h) ==
    /\ pc[h] = "wait_sleep"
    /\ expired[h]
    /\ fs' = Cleanup(fs, msg[h].profileDir)
    /\ linked' = Orphaned(msg[h].profileDir)
    /\ waited' = [waited EXCEPT ![h] = "False"]
    /\ pc' = [pc EXCEPT ![h] = "spawn"]
    /\ UNCHANGED <<msg, result, reqCount, reqLog, expired, popen, watcher_started,
                   watcherVars, outVars, exitCode, spawned, taken, started,
                   firstReg, seqLog, sortVars>>

\* A launch that forgets the extra argument.
PopenArgsNoUrl(m) == [req |-> 0, profileDir |-> m.profileDir, url |-> Missing]

\* The argument list after CHROME_BIN: --profile-directory=<dir>, and the url
\* in open_url_in_profile.
PopenArgs(m) ==
    [req |-> 0, profileDir |-> m.profileDir,
     url |-> IF m.action = "open-url-in-profile" THEN m.url ELSE Missing]

\* The launch of lines 205-214 / 226-235: Popen succeeds, or raises OSError,
\* or (a url of None in the argument list) raises TypeError, which is not caught.
Spawn(h, ok) ==
    /\ pc[h] = "spawn"
    /\ IF msg[h].action = "open-url-in-profile" /\ msg[h].url = Missing
       THEN /\ Crash(h)
            /\ popen' = [popen EXCEPT ![h] = "TypeError"]
            /\ UNCHANGED <<result, spawned>>
       ELSE /\ pc' = [pc EXCEPT ![h] = "send"]
            /\ result' = [result EXCEPT ![h] =
                   IF ok THEN Success("launch") ELSE Failure("Failed to launch Chrome")]
            /\ spawned' = [spawned EXCEPT ![h] =
                   IF ok THEN Append(@, [PopenArgs(msg[h]) EXCEPT !.req = reqCount[h]])
                   ELSE @]
            /\ popen' = [popen EXCEPT ![h] = IF ok THEN "ok" ELSE "OSError"]
            /\ UNCHANGED exitCode
    /\ UNCHANGED <<fs, msg, reqCount, reqLog, expired, waited, linked, watcher_started,
                   watcherVars, outVars, taken, started, firstReg, seqLog, sortVars>>

\* send_message(result), first half.
SendAcquire(h) ==
    /\ pc[h] = "send"
    /\ SendPrefix(h, "main", Response(h))
    /\ pc' = [pc EXCEPT ![h] = "send_body"]
    /\ UNCHANGED <<fs, msg, result, reqCount, reqLog, expired, waited, popen, linked,
                   watcher_started, watcherVars, exitCode, spawned, taken,
                   started, firstReg, seqLog, sortVars>>

\* send_message(result), second half; then back to read_message.
SendBody(h) ==
    /\ pc[h] = "send_body"
    /\ SendRest(h, Response(h))
    /\ pc' = [pc EXCEPT ![h] = "read"]
    /\ msg' = [msg EXCEPT ![h] = NoMsg]
    /\ result' = [result EXCEPT ![h] = NoResult]
    /\ taken' = [taken EXCEPT ![h] = "no"]
    /\ expired' = [expired EXCEPT ![h] = FALSE]
    /\ waited' = [waited EXCEPT ![h] = "-"]
    /\ popen' = [popen EXCEPT ![h] = "-"]
    /\ UNCHANGED <<fs, reqCount, reqLog, linked, watcher_started, watcherVars,
                   exitCode, spawned, started, firstReg, seqLog, sortVars>>

\* read_message: read(4) gave n4 bytes; with all four, they announce a body of
\* length bytes and read(length) gave nb of them.  Lines 39 and 43.
Truncated(n4, length, nb) == n4 < PrefixLen \/ nb < length

\* An exit that reports the truncated input as a failure.
ExitFailure(h) == [exitCode EXCEPT ![h] = 1]

\* sys.exit(0), lines 40 and 44.
ExitClean(h) == [exitCode EXCEPT ![h] = 0]

\* read_message finds the input closed or truncated.
ReadEOF(h, n4, length, nb) ==
    /\ pc[h] = "read"
    /\ Truncated(n4, length, nb)
    /\ pc' = [pc EXCEPT ![h] = "exited"]
    /\ exitCode' = ExitClean(h)
    /\ UNCHANGED <<fs, msg, result, reqCount, reqLog, expired, waited, popen, linked,
                   watcher_started, watcherVars, outVars, spawned, taken,
                   started, firstReg, seqLog, sortVars>>

\* ---------------------------------------------------------- signal_watcher
Running(h) == pc[h] # "exited"

\* read_signal line 144: the file is not there (return None) or it is.
WExists(h) ==
    /\ Running(h) /\ wpc[h] = "w_exists"
    /\ wpc' = [wpc EXCEPT ![h] = IF fs[watched[h]].exists THEN "w_read" ELSE "w_sleep"]
    /\ UNCHANGED <<fs, mainVars, watched, wdata, wtakes, outVars, taken, seqLog, sortVars>>

\* Line 147: read_text (OSError when the file has gone) and json.loads.
WReadText(h) ==
    /\ Running(h) /\ wpc[h] = "w_read"
    /\ LET f == fs[watched[h]]
           data == IF f.exists THEN Loads(f.text) ELSE JSONDecodeError
       IN IF data # JSONDecodeError
          THEN /\ wdata' = [wdata EXCEPT ![h] = data]
               /\ wpc' = [wpc EXCEPT ![h] = "w_unlink"]
          ELSE /\ wpc' = [wpc EXCEPT ![h] = "w_except"]
               /\ UNCHANGED wdata
    /\ UNCHANGED <<fs, mainVars, watched, wtakes, outVars, taken, seqLog, sortVars>>

\* signal.get of line 179: a dict has it; on a list it raises AttributeError,
\* which ends the thread.
HasGet(data) == data.kind = "dict"

\* Line 148: unlink and return the data, or OSError when the file has gone.
\* The data returned, lines 178-179 send it or raise.
WUnlink(h) ==
    /\ Running(h) /\ wpc[h] = "w_unlink"
    /\ IF fs[watched[h]].exists
       THEN /\ fs' = Unlink(fs, watched[h])
            /\ linked' = Orphaned(watched[h])
            /\ taken' = Noted(watched[h], "consumed")
            /\ wpc' = [wpc EXCEPT ![h] = IF HasGet(wdata[h]) THEN "w_send" ELSE "w_dead"]
            /\ wtakes' = [wtakes EXCEPT ![h] = Append(@, wdata[h])]
            /\ UNCHANGED wdata
       ELSE /\ wpc' = [wpc EXCEPT ![h] = "w_except"]
            /\ wdata' = [wdata EXCEPT ![h] = PyNone]
            /\ UNCHANGED <<fs, linked, taken, wtakes>>
    /\ UNCHANGED <<pc, msg, result, reqCount, reqLog, expired, waited, popen, watcher_started,
                   watched, outVars, exitCode, spawned, started, firstReg, seqLog, sortVars>>

\* Lines 150-155: unlink if it can, return None.
WExcept(h) ==
    /\ Running(h) /\ wpc[h] = "w_except"
    /\ IF fs[watched[h]].exists
       THEN /\ fs' = Unlink(fs, watched[h])
            /\ linked' = Orphaned(watched[h])
            /\ taken' = Noted(watched[h], "removed")
       ELSE UNCHANGED <<fs, linked, taken>>
    /\ wpc' = [wpc EXCEPT ![h] = "w_sleep"]
    /\ UNCHANGED <<pc, msg, result, reqCount, reqLog, expired, waited, popen, watcher_started,
                   watched, wdata, wtakes, outVars, exitCode, spawned, started, firstReg,
                   seqLog, sortVars>>

\* Lines 178-183, first half of send_message.
WSendAcquire(h) ==
    /\ Running(h) /\ wpc[h] = "w_send"
    /\ SendPrefix(h, "watcher", Event(wdata[h]))
    /\ wpc' = [wpc EXCEPT ![h] = "w_send_body"]
    /\ UNCHANGED <<fs, mainVars, watched, wdata, wtakes, taken, seqLog, sortVars>>

\* Second half of send_message.
WSendBody(h) ==
    /\ Running(h) /\ wpc[h] = "w_send_body"
    /\ SendRest(h, Event(wdata[h]))
    /\ wpc' = [wpc EXCEPT ![h] = "w_sleep"]
    /\ wdata' = [wdata EXCEPT ![h] = PyNone]
    /\ UNCHANGED <<fs, mainVars, watched, wtakes, taken, seqLog, sortVars>>

\* Line 184: time.sleep(0.3), then the next iteration.
WSleep(h) ==
    /\ Running(h) /\ wpc[h] = "w_sleep"
    /\ wpc' = [wpc EXCEPT ![h] = "w_exists"]
    /\ UNCHANGED <<fs, mainVars, watched, wdata, wtakes, outVars, taken, seqLog, sortVars>>

\* ------------------------------------------- other programs in SIGNAL_DIR
\* Texts a program other than this host can leave in a slot: a list, a cut-off
\* object, and the two kinds of signal.
ForeignTexts == {<<"[", "]">>, <<"{">>, Dumps(EmptyObj)} \cup {Dumps(UrlObj(u)) : u \in Urls}

\* Another program writes the file of slot p (SIGNAL_DIR is under /tmp).
ForeignWrite(p, text) ==
    /\ Sum([h \in Hosts |-> Len(wtakes[h])], Hosts) < MaxTakes
    /\ fs' = WriteAt0(OpenW(fs, p), p, text)
    /\ UNCHANGED <<hostVars, seqLog, sortVars>>

\* Another program removes the file of slot p.
ForeignUnlink(p) ==
    /\ fs[p].exists
    /\ fs' = Unlink(fs, p)
    /\ linked' = Orphaned(p)
    /\ UNCHANGED <<pc, msg, result, reqCount, reqLog, expired, waited, popen, watcher_started,
                   spawned, exitCode, started, firstReg, watcherVars, outVars, taken,
                   seqLog, sortVars>>

\* --------------------------------------------------------- specification
Dirs == Profiles \cup {Missing, EmptyDir}

\* The steps a handler and the watcher take once a request is in.
Step(h) ==
    \/ WriteStore(h)
    \/ WaitPoll(h)
    \/ DeadlinePasses(h)
    \/ WaitWake(h)
    \/ WaitTimeout(h)
    \/ \E ok \in BOOLEAN : Spawn(h, ok)
    \/ SendAcquire(h)
    \/ SendBody(h)
    \/ WExists(h)
    \/ WReadText(h)
    \/ WUnlink(h)
    \/ WExcept(h)
    \/ WSendAcquire(h)
    \/ WSendBody(h)
    \/ WSleep(h)

\* The hosts of all profiles, signalling each other: every request names a
\* profile and carries an id.
Next ==
    \E h \in Hosts :
        \/ \E dir \in Profiles : Register(h, dir, reqCount[h] + 1)
        \/ \E dir \in Profiles : SwitchProfile(h, dir, reqCount[h] + 1)
        \/ \E dir \in Profiles, url \in Urls \cup {Missing} :
               OpenUrlInProfile(h, dir, url, reqCount[h] + 1)
        \/ Step(h)

Spec == Init /\ [][Next]_vars

\* One host process and every request the extension can send it.
NextHost ==
    \E h \in {"h1"} :
        \/ \E dir \in Dirs, id \in IdsOf(h) : Register(h, dir, id)
        \/ \E id \in IdsOf(h), ok \in BOOLEAN : GetProfiles(h, id, ok)
        \/ \E id \in IdsOf(h) : UnknownAction(h, id)
        \/ \E dir \in Dirs, id \in IdsOf(h) : SwitchProfile(h, dir, id)
        \/ \E dir \in Dirs, url \in Urls \cup {Missing}, id \in IdsOf(h) :
               OpenUrlInProfile(h, dir, url, id)
        \/ \E n4 \in 0..PrefixLen, length \in 0..MaxBody, nb \in 0..MaxBody :
               nb <= length /\ ReadEOF(h, n4, length, nb)
        \/ Step(h)

SpecHost == Init /\ [][NextHost]_vars

\* One host with its watcher, and other programs writing into SIGNAL_DIR.
NextWatch ==
    \/ \E dir \in Profiles : Register("h1", dir, reqCount["h1"] + 1)
    \/ SendAcquire("h1")
    \/ SendBody("h1")
    \/ \E p \in Profiles, text \in ForeignTexts : ForeignWrite(p, text)
    \/ \E p \in Profiles : ForeignUnlink(p)
    \/ WExists("h1")
    \/ WReadText("h1")
    \/ WUnlink("h1")
    \/ WExcept("h1")
    \/ WSendAcquire("h1")
    \/ WSendBody("h1")
    \/ WSleep("h1")

SpecWatch == Init /\ [][NextWatch]_vars

\* ------------------------------------------- the mailbox, one call at a time
\* A client that calls write_signal and read_signal one after the other, each
\* call running to its end, as signal_watcher and the handlers do when nothing
\* else touches the slot.  Two more operations leave what concurrent or killed
\* writers leave: a file opened ("w") and not yet written, and a file two
\* writers opened before either wrote.

\* What signal_watcher sends for what read_signal returned (lines 178-183).
Pushes(ret) == IF ret # PyNone THEN <<Event(ret)>> ELSE <<>>

Logged(op, p, data, ret, after) ==
    /\ Len(seqLog) < MaxOps
    /\ fs' = after
    /\ seqLog' = Append(seqLog, [op |-> op, p |-> p, data |-> data, ret |-> ret,
                                 pre |-> fs[p], post |-> after[p],
                                 pushed |-> Pushes(ret)])
    /\ UNCHANGED <<hostVars, sortVars>>

SeqWrite(p, data) == Logged("write", p, data, PyNone, write_signal(fs, p, data))

SeqRead(p) == Logged("read", p, PyNone, read_signal(fs, p).ret, read_signal(fs, p).fs)

SeqOpened(p) == Logged("opened", p, PyNone, PyNone, OpenW(fs, p))

SeqTorn(p, u) ==
    Logged("torn", p, UrlObj(u), PyNone,
           WriteAt0(WriteAt0(OpenW(fs, p), p, Dumps(UrlObj(u))), p, Dumps(EmptyObj)))

NextSeq ==
    \E p \in Profiles :
        \/ \E data \in Payloads : SeqWrite(p, data)
        \/ SeqRead(p)
        \/ SeqOpened(p)
        \/ \E u \in Urls : SeqTorn(p, u)

SpecSeq == Init /\ [][NextSeq]_vars

\* ------------------------------------------------- get_profiles: the order
\* A directory name is the list str.split() makes of it; a token is a word or
\* a literal int() parses.
Word(w) == [isnum |-> FALSE, word |-> w, num |-> 0]
Num(n) == [isnum |-> TRUE, word |-> "", num |-> n]

Default == <<Word("Default")>>
ProfileN(n) == <<Word("Profile"), Num(n)>>

\* "Default", "Profile 2", "Profile 10", "Custom", "Guest Profile", "Work 5".
DirNames == {Default, ProfileN(2), ProfileN(10), <<Word("Custom")>>,
             <<Word("Guest"), Word("Profile")>>, <<Word("Work"), Num(5)>>}

\* profile_sort_key: int() of the last token, ValueError / IndexError caught.
profile_sort_key(dirname) ==
    IF dirname = Default THEN <<0, 0>>
    ELSE IF Len(dirname) > 0 /\ dirname[Len(dirname)].isnum
         THEN <<1, dirname[Len(dirname)].num>>
    ELSE <<2, 0>>

\* The order of Python tuples of two ints.
KeyLess(a, b) == a[1] < b[1] \/ (a[1] = b[1] /\ a[2] < b[2])

\* x put into the sorted list t behind every element whose key is not greater.
Insert(t, x) ==
    LET c == Cardinality({i \in 1..Len(t) :
                 ~KeyLess(profile_sort_key(x), profile_sort_key(t[i]))})
    IN SubSeq(t, 1, c) \o <<x>> \o SubSeq(t, c + 1, Len(t))

\* sorted(names, key=profile_sort_key): stable.
RECURSIVE sorted(_)
sorted(names) ==
    IF names = <<>> THEN <<>>
    ELSE Insert(sorted(SubSeq(names, 1, Len(names) - 1)), names[Len(names)])

\* The key lists of a Local State file: names without repetition.
DirLists ==
    {l \in UNION {[1..n -> DirNames] : n \in 0..MaxDirs} :
        \A i, j \in 1..Len(l) : i # j => l[i] # l[j]}

\* Lines 101-105.
SortProfiles ==
    /\ info_cache # <<>>
    /\ ~sorted_dirs.done
    /\ sorted_dirs' = [done |-> TRUE, dirs |-> sorted(info_cache)]
    /\ UNCHANGED <<fs, hostVars, seqLog, info_cache>>

InitSort == Start /\ info_cache \in DirLists /\ sorted_dirs = Unsorted

SpecSort == InitSort /\ [][SortProfiles]_vars

\* =================================================================== claims
\* The payload a write_signal(p, data) leaves for the reader: the dict, and
\* the empty dict for the plain activate signal (no data).
PayloadOf(data) == IF data = PyNone THEN EmptyObj ELSE data

IsOp(i, op, p) == i \in 1..Len(seqLog) /\ seqLog[i].op = op /\ seqLog[i].p = p

\* C4: read_signal(p) right after write_signal(p, X) returns X (the empty
\* payload included), and a second read_signal(p) right after it returns None:
\* a written signal is consumed at most once.
C4_TakeAfterWrite ==
    \A p \in Profiles : \A i \in 1..Len(seqLog) :
        IsOp(i, "write", p) /\ IsOp(i + 1, "read", p) =>
            /\ seqLog[i + 1].ret = PayloadOf(seqLog[i].data)
            /\ IsOp(i + 2, "read", p) => seqLog[i + 2].ret = PyNone

\* C4 witness: a plain activate signal written, read back, and read again.
C4_Witness ==
    \E p \in Profiles :
        /\ IsOp(1, "write", p) /\ seqLog[1].data = PyNone
        /\ IsOp(2, "read", p) /\ seqLog[2].ret = EmptyObj
        /\ IsOp(3, "read", p) /\ seqLog[3].ret = PyNone

\* C5: write_signal(p, A), write_signal(p, B), read_signal(p) returns B, and
\* the read_signal(p) after it returns None: the last write wins, no queue.
C5_LastWriteWins ==
    \A p \in Profiles : \A i \in 1..Len(seqLog) :
        IsOp(i, "write", p) /\ IsOp(i + 1, "write", p) /\ IsOp(i + 2, "read", p) =>
            /\ seqLog[i + 2].ret = PayloadOf(seqLog[i + 1].data)
            /\ IsOp(i + 3, "read", p) => seqLog[i + 3].ret = PyNone

\* C5 witness: a long payload overwritten by a shorter one, read, read again.
C5_Witness ==
    \E p \in Profiles :
        /\ IsOp(1, "write", p) /\ seqLog[1].data \in {UrlObj(u) : u \in Urls}
        /\ IsOp(2, "write", p) /\ seqLog[2].data = PyNone
        /\ IsOp(3, "read", p) /\ seqLog[3].ret = EmptyObj
        /\ IsOp(4, "read", p) /\ seqLog[4].ret = PyNone

Corrupt(file) == file.exists /\ Loads(file.text) = JSONDecodeError

SignalActions == {"switch-profile", "open-url-in-profile"}

\* The handler of a switch-profile / open-url-in-profile request has returned.
Handled(h) == pc[h] \in {"send", "send_body"} /\ msg[h].action \in SignalActions

\* The launches host h made for its n-th request.
SpawnsOf(h, n) == {i \in 1..Len(spawned[h]) : spawned[h][i].req = n}

\* C1, as claimed: wait_for_signal_consumed returns True if and only if a
\* watcher's read_signal took the slot between the caller's write and the
\* deadline (never True without a take, never False after a take).
C1_TrueIffTaken ==
    \A h \in Hosts :
        /\ waited[h] = "True" => taken[h] # "no"
        /\ waited[h] = "False" => taken[h] = "no"

\* C2, as claimed: when the target's watcher consumes the slot before the
\* wait's deadline, the result is success by "signal" and the request spawns
\* nothing.
C2_ConsumedMeansSignal ==
    \A h \in Hosts :
        Handled(h) /\ taken[h] = "consumed" =>
            /\ result[h] = Success("signal")
            /\ SpawnsOf(h, reqCount[h]) = {}

\* C3: a request whose wait timed out and whose Popen succeeded results in
\* success by "launch" with exactly one spawn, made after the timeout, carrying
\* the target's profile directory (and the url for open-url-in-profile); until
\* the wait has timed out the request has spawned nothing.
C3_TimeoutLaunches ==
    \A h \in Hosts :
        LET mine == SpawnsOf(h, reqCount[h]) IN
        /\ msg[h].action \in SignalActions /\ waited[h] # "False" => mine = {}
        /\ Handled(h) /\ waited[h] = "False" /\ popen[h] = "ok" =>
              /\ result[h] = Success("launch")
              /\ Cardinality(mine) = 1
              /\ \A i \in mine :
                    /\ spawned[h][i].profileDir = msg[h].profileDir
                    /\ spawned[h][i].url =
                          IF msg[h].action = "open-url-in-profile"
                          THEN msg[h].url ELSE Missing

\* C3 witness: an open-url-in-profile request launched after its timeout,
\* with the url in the argument list.
C3_Witness ==
    \E h \in Hosts :
        /\ Handled(h) /\ msg[h].action = "open-url-in-profile"
        /\ waited[h] = "False" /\ popen[h] = "ok" /\ taken[h] = "no"
        /\ result[h].method = "launch"
        /\ \E i \in SpawnsOf(h, reqCount[h]) : spawned[h][i].url \in Urls

\* C6: the step in which wait_for_signal_consumed times out and returns False
\* leaves no slot for p, whatever the slot held before and whoever else is
\* writing to p or watching it.
C6_TimeoutClearsSlot ==
    [][\A h \in Hosts :
          pc[h] = "wait_sleep" /\ pc'[h] = "spawn" =>
              waited'[h] = "False" /\ ~fs'[msg[h].profileDir].exists]_vars

\* C6 witness: a wait has timed out while another host waits on a signal it
\* wrote to the same slot, and the slot is gone.
C6_Witness ==
    \E h \in Hosts, g \in Hosts :
        /\ h # g /\ pc[h] = "spawn" /\ waited[h] = "False"
        /\ Waiting(g) /\ msg[g].profileDir = msg[h].profileDir
        /\ ~fs[msg[h].profileDir].exists

IsResponse(c) == c.part = "body" /\ c.m.kind = "response"
IsEvent(c) == c.part = "body" /\ c.m.kind = "event"

\* The responses host h has sent, in the order of the output stream.
Responses(h) == SelectSeq(stdout[h], IsResponse)

\* How many of h's requests the dispatch loop is through with.
Answered(h) == IF pc[h] \in {"read", "exited"} THEN reqCount[h] ELSE reqCount[h] - 1

\* C7: whatever register requests a process gets, at most one watcher thread
\* is ever started, it watches the first identifier a register request named
\* (none while no request named one), and every register request is answered
\* with success: true and nothing else.
C7_OneWatcher ==
    \A h \in Hosts :
        /\ started[h] <= 1
        /\ firstReg[h] = Missing => started[h] = 0 /\ wpc[h] = "off"
        /\ firstReg[h] # Missing =>
              started[h] = 1 /\ watcher_started[h] /\ watched[h] = firstReg[h]
        /\ msg[h].action = "register" /\ pc[h] \in {"send", "send_body"} =>
              result[h] = Success(Missing)
        /\ \A n \in 1..Answered(h) :
              reqLog[h][n].action = "register" =>
                  /\ Cardinality({i \in 1..Len(Responses(h)) : Responses(h)[i].m.req = n}) = 1
                  /\ \A i \in 1..Len(Responses(h)) :
                        Responses(h)[i].m.req = n =>
                            /\ Responses(h)[i].m.success
                            /\ Responses(h)[i].m.error = Missing

\* C7 witness: two register requests for different identifiers answered, one
\* watcher running, on the first identifier.
C7_Witness ==
    \E h \in Hosts :
        /\ pc[h] = "read" /\ Len(reqLog[h]) = 2 /\ Len(Responses(h)) = 2
        /\ reqLog[h][1].action = "register" /\ reqLog[h][2].action = "register"
        /\ reqLog[h][1].profileDir \in Profiles /\ reqLog[h][2].profileDir \in Profiles
        /\ reqLog[h][1].profileDir # reqLog[h][2].profileDir
        /\ started[h] = 1 /\ watched[h] = reqLog[h][1].profileDir /\ wpc[h] # "off"

\* C8, as claimed: every request read gets exactly one response, the responses
\* come in the order of the requests and before the next request is read, each
\* carries the request's id (none when the request has none), and the
\* watcher's events carry no id.
C8_OneResponsePerRequest ==
    \A h \in Hosts :
        /\ Len(Responses(h)) = Answered(h)
        /\ \A n \in 1..Len(Responses(h)) :
              /\ Responses(h)[n].m.req = n
              /\ Responses(h)[n].m.id = reqLog[h][n].id
        /\ \A i \in 1..Len(stdout[h]) : IsEvent(stdout[h][i]) => stdout[h][i].m.id = NoId

\* The stream is whole frames: a length prefix, then the body it announces.
WellFramed(s) ==
    /\ Len(s) % 2 = 0
    /\ \A i \in 1..Len(s) :
          IF i % 2 = 1 THEN s[i].part = "len" /\ s[i + 1].part = "body" /\ s[i + 1].m = s[i].m
          ELSE s[i].part = "body"

\* C9: the dispatch loop and the watcher never write a frame at the same
\* time: what has reached the output stream is whole frames, one after the
\* other, and what is written and not yet flushed is the prefix of the one
\* frame whose writer holds the lock.
C9_WholeFrames ==
    \A h \in Hosts :
        /\ WellFramed(stdout[h])
        /\ ~(pc[h] = "send_body" /\ wpc[h] = "w_send_body")
        /\ stdout_lock[h] = "free" => outbuf[h] = <<>>
        /\ stdout_lock[h] = "main" =>
              pc[h] = "send_body" /\ outbuf[h] = <<[part |-> "len", m |-> Response(h)]>>
        /\ stdout_lock[h] = "watcher" =>
              wpc[h] = "w_send_body" /\ outbuf[h] = <<[part |-> "len", m |-> Event(wdata[h])]>>

\* C9 witness: the watcher is inside send_message with its prefix written,
\* the dispatch loop has a response to send and waits for the lock, and an
\* earlier frame is already on the stream.
C9_Witness ==
    \E h \in Hosts :
        /\ wpc[h] = "w_send_body" /\ stdout_lock[h] = "watcher" /\ Len(outbuf[h]) = 1
        /\ pc[h] = "send"
        /\ Len(stdout[h]) >= 2


\* ------------------------------------------------ C11: the launch that fails
LaunchFailed == "Failed to launch Chrome"

\* C11: when the wait timed out and Popen raised OSError, the handler's result
\* is the error string alone (no success, no method), the process goes on to
\* send it, and the response that carries it echoes the id of its request; the
\* process does not exit over it.
C11_LaunchFailureAnswered ==
    \A h \in Hosts :
        /\ popen[h] = "OSError" =>
               /\ waited[h] = "False"
               /\ pc[h] \in {"send", "send_body"}
               /\ exitCode[h] = -1
               /\ result[h].error = LaunchFailed
               /\ ~result[h].success
               /\ result[h].method = Missing
               /\ result[h].profiles = FALSE
        /\ \A n \in 1..Len(Responses(h)) :
               Responses(h)[n].m.error = LaunchFailed =>
                   /\ ~Responses(h)[n].m.success
                   /\ Responses(h)[n].m.method = Missing
                   /\ Responses(h)[n].m.req = n
                   /\ Responses(h)[n].m.act \in SignalActions
                   /\ Responses(h)[n].m.id = reqLog[h][n].id
                   /\ (exitCode[h] = 1 => n < reqCount[h])

\* The launch failed for the first request, its response echoes the id, and
\* the request after it has been answered too.
C11_Witness ==
    /\ Len(Responses("h1")) = 2
    /\ Responses("h1")[1].m.error = LaunchFailed
    /\ Responses("h1")[1].m.id = 1
    /\ Responses("h1")[2].m.req = 2
    /\ pc["h1"] = "read"


\* --------------------------------------------------- C12: truncated input
\* C12: a process that read_message ended on short input (fewer than four
\* prefix bytes, or fewer body bytes than announced: the one way to end between
\* two requests) has exit code 0; a process with exit code 0 ended there, with
\* nothing of a response pending and with the response of every request read
\* before on stdout, in order.
C12_TruncatedInputExitsClean ==
    \A h \in Hosts :
        /\ exitCode[h] = 0 =>
               /\ pc[h] = "exited"
               /\ msg[h] = NoMsg
               /\ Len(Responses(h)) = reqCount[h]
               /\ \A n \in 1..reqCount[h] :
                      /\ Responses(h)[n].m.req = n
                      /\ Responses(h)[n].m.act = reqLog[h][n].action
               /\ \A i \in 1..Len(outbuf[h]) : outbuf[h][i].m.kind # "response"
        /\ (pc[h] = "exited" /\ msg[h] = NoMsg) => exitCode[h] = 0

\* A request was answered, then the input ended.
C12_Witness ==
    /\ exitCode["h1"] = 0
    /\ reqCount["h1"] = 1
    /\ Len(Responses("h1")) = 1


\* ------------------------------------------------ C13: the order of profiles
IsProfileN(name) == Len(name) = 2 /\ name[1] = Word("Profile") /\ name[2].isnum

\* 0 for "Default", 1 for "Profile <N>", 2 for a name of any other form.
FormOf(name) == IF name = Default THEN 0 ELSE IF IsProfileN(name) THEN 1 ELSE 2

\* Where name stands in the list l.
IndexIn(l, name) == CHOOSE i \in 1..Len(l) : l[i] = name

\* out holds the names of in: "Default" first, then the "Profile <N>" by
\* ascending N, then every other name in the order of in.
InProfileOrder(in, out) ==
    /\ Len(out) = Len(in)
    /\ {out[i] : i \in 1..Len(out)} = {in[i] : i \in 1..Len(in)}
    /\ \A i, j \in 1..Len(out) : i < j =>
           /\ FormOf(out[i]) <= FormOf(out[j])
           /\ (FormOf(out[i]) = 1 /\ FormOf(out[j]) = 1) => out[i][2].num <= out[j][2].num
           /\ (FormOf(out[i]) = 2 /\ FormOf(out[j]) = 2) =>
                  IndexIn(in, out[i]) < IndexIn(in, out[j])

\* C13: for every list of directory names, the sorted list has "Default"
\* first, then the "Profile <N>" names by ascending N, then every name of any
\* other form, in their original relative order.
C13_ProfileOrder == sorted_dirs.done => InProfileOrder(info_cache, sorted_dirs.dirs)


\* ---------------------------------------------- C14: one event for each take
Events(h) == SelectSeq(stdout[h], IsEvent)

\* The event the claim has for a payload: open-url with the URL when the
\* payload holds one, the plain activate otherwise.
HasUrl(data) == data.url \in Urls
PushedFor(m, data) ==
    /\ m.kind = "event"
    /\ m.action = IF HasUrl(data) THEN "open-url" ELSE "activate"
    /\ m.url = IF HasUrl(data) THEN data.url ELSE Missing

\* The watcher holds a payload it has taken and not yet pushed.
InPush(h) == wpc[h] \in {"w_send", "w_send_body"}

\* C14: the events a watcher has pushed are, one for one and in order, the
\* events of the payloads its takes returned: open-url with the payload's URL
\* when it holds one, activate otherwise; only the take whose push is under
\* way has no event yet, and an iteration that took nothing pushed nothing.
C14_OneEventPerTake ==
    \A h \in Hosts :
        /\ Len(wtakes[h]) = Len(Events(h)) + (IF InPush(h) THEN 1 ELSE 0)
        /\ \A i \in 1..Len(Events(h)) : PushedFor(Events(h)[i].m, wtakes[h][i])
        /\ InPush(h) => wdata[h] = wtakes[h][Len(wtakes[h])]
        /\ \A i \in 1..Len(outbuf[h]) :
               outbuf[h][i].m.kind = "event" =>
                   wpc[h] = "w_send_body" /\ PushedFor(outbuf[h][i].m, wdata[h])

\* A watcher took a payload with a URL and pushed the open-url event.
C14_Witness ==
    \E h \in Hosts :
        /\ Len(Events(h)) = 1
        /\ wtakes[h] = <<UrlObj("http://a")>>
        /\ Events(h)[1].m.action = "open-url"
        /\ wpc[h] = "w_sleep"

\* A watcher took the payload of a switch-profile and pushed activate.
C14_WitnessActivate ==
    \E h \in Hosts :
        /\ Len(Events(h)) = 1
        /\ wtakes[h] = <<EmptyObj>>
        /\ Events(h)[1].m.action = "activate"


\* ------------------------------------------------ C16: the watcher goes on
\* C16: while its process is alive a started watcher thread has not ended,
\* whatever the slot held (nothing, a signal, a corrupt text, a text of another
\* shape) and whatever other programs did to it.
C16_WatcherNeverStops ==
    \A h \in Hosts : (watcher_started[h] /\ Running(h)) => wpc[h] # "w_dead"


\* -------------------------------------------- C15: the double activation
\* The request h is handling was consumed by a watcher during its wait, and
\* the wait returned False all the same.
ConsumedYetTimedOut(h) ==
    Handled(h) /\ waited[h] = "False" /\ taken[h] = "consumed"

\* A watcher of p has taken a payload and has pushed, or is pushing, an event.
Activated(p) ==
    \E w \in Hosts :
        /\ watched[w] = p
        /\ wtakes[w] # <<>>
        /\ (Events(w) # <<>> \/ InPush(w))

\* C15: the interleaving in which a watcher consumes the signal of a request
\* whose wait then reports timeout gives the target two activations: the
\* watcher's event, and the launch the handler makes next (one Popen for the
\* request with the target's directory, result method "launch").  The witness
\* shows such an interleaving is reachable with a single request.
C15_DoubleActivation ==
    \A h \in Hosts :
        (ConsumedYetTimedOut(h) /\ popen[h] = "ok") =>
            /\ Activated(msg[h].profileDir)
            /\ result[h].success
            /\ result[h].method = "launch"
            /\ Cardinality(SpawnsOf(h, reqCount[h])) = 1
            /\ \A i \in SpawnsOf(h, reqCount[h]) :
                   spawned[h][i].profileDir = msg[h].profileDir

\* One switch-profile, the only signal ever written: the target's watcher has
\* pushed its activate event, and the handler has launched Chrome as well.
C15_Witness ==
    \E h, w \in Hosts :
        /\ h # w
        /\ ConsumedYetTimedOut(h)
        /\ msg[h].action = "switch-profile"
        /\ reqCount[h] = 1
        /\ result[h].method = "launch"
        /\ Len(spawned[h]) = 1
        /\ watched[w] = msg[h].profileDir
        /\ reqCount[w] = 1
        /\ Len(Events(w)) = 1
        /\ Events(w)[1].m.action = "activate"


\* ------------------------------------------ C17: every request is answered
\* C17: a switch-profile or open-url-in-profile request that was read is
\* answered: wait_for_signal_consumed returns, the response follows and the
\* loop reads again.  In finite runs: no process has ended with such a
\* request read and not answered.
C17_SignalRequestsAnswered ==
    \A h \in Hosts : msg[h].action \in SignalActions => Running(h)


\* ------------------------------------- C18: identifiers do not contend
\* The step is one of write_signal(q, .) (open or store), of the timeout
\* cleanup of wait_for_signal_consumed(q, .) or of the unlinks of read_signal(q).
StepOn(q) ==
    \E h \in Hosts :
        \/ pc[h] = "read" /\ pc'[h] = "ws_write" /\ msg'[h].profileDir = q
        \/ pc[h] = "ws_write" /\ pc'[h] = "wait_exists" /\ msg[h].profileDir = q
        \/ pc[h] = "wait_sleep" /\ pc'[h] = "spawn" /\ msg[h].profileDir = q
        \/ wpc[h] \in {"w_unlink", "w_except"} /\ wpc'[h] # wpc[h] /\ watched[h] = q

\* C18: a step changes the existence or the content of the slot of q only if
\* it is a step of an operation on q: the operations on any other identifier
\* leave the slot of q as it is, in every interleaving.
C18_NoContention ==
    [][\A q \in Profiles : fs'[q] # fs[q] => StepOn(q)]_vars

\* A wait on "Profile 1" has timed out and cleaned up its slot while the
\* slot of "Default" held a signal, which is still there.
C18_Witness ==
    \E h \in Hosts :
        /\ pc[h] = "spawn"
        /\ msg[h].profileDir = "Profile 1"
        /\ ~fs["Profile 1"].exists
        /\ fs["Default"] = [exists |-> TRUE, text |-> Dumps(EmptyObj)]


\* ------------------------------------- C19: delivered means an event
\* The event that matches the request m: the one of the payload it wrote.
MatchesRequest(e, m) == PushedFor(e, OrEmpty(SignalData(m)))

\* C19: when a switch-profile or open-url-in-profile request returns method
\* "signal", a watcher of the target has pushed the event matching the
\* request, or holds the request's payload and is pushing it.
C19_SignalMeansEvent ==
    \A h \in Hosts :
        (Handled(h) /\ result[h].method = "signal") =>
            \E w \in Hosts :
                /\ watched[w] = msg[h].profileDir
                /\ \/ \E i \in 1..Len(Events(w)) : MatchesRequest(Events(w)[i].m, msg[h])
                   \/ InPush(w) /\ MatchesRequest(Event(wdata[w]), msg[h])


\* ------------------------------------------- C20: no stale signal is left
\* A request that targets p is between its write_signal and the return of its
\* wait_for_signal_consumed.
Outstanding(p) == \E h \in Hosts : Signalling(h) /\ msg[h].profileDir = p

\* C20: whenever no request that targets p is outstanding, the slot of p is
\* absent, with or without a watcher of p; so it stays absent until the next
\* write, and a watcher started later finds nothing of the earlier requests.
C20_NoStaleSignal ==
    \A p \in Profiles : ~Outstanding(p) => ~fs[p].exists

\* Two requests targeted "Default" while no watcher was running; both waits
\* have returned and the slot is absent.
C20_Witness ==
    /\ \A h \in Hosts :
           /\ reqCount[h] = 1
           /\ reqLog[h][1].action \in SignalActions
           /\ reqLog[h][1].profileDir = "Default"
           /\ wpc[h] = "off"
    /\ ~Outstanding("Default")
    /\ ~fs["Default"].exists

====
